---- MODULE Spec2Model ----
(***************************************************************************)
(* A model of the Shoutbox email client: the HTTP dispatcher (class        *)
(* Shoutbox, index.ts, in its two revisions) and the SMTP dispatcher       *)
(* (class SMTPClient, smtp.ts).                                            *)
(*                                                                         *)
(* JavaScript values are tagged records ([t |-> "undefined"], strings,     *)
(* buffers, arrays, objects).  A JavaScript string is a sequence of runs   *)
(* <<ch, n>>: n >= 1 copies of the character ch, adjacent runs holding     *)
(* different characters, so that a body of a megabyte is one run.  An      *)
(* async function is a call record with a position (pc); one action runs   *)
(* it from one await to the next, as the event loop does.                  *)
(***************************************************************************)
EXTENDS Integers, Sequences, FiniteSets, TLC

----------------------------------------------------------------------------
(* Bounds of the model *)

\* calls the caller makes in one run (a sendEmails is one call)
MaxCalls == 2
\* emails the caller sends in one run, alone or in the list of a sendEmails
MaxSends == 2
\* characters in a rendering drawn from the characters cleanRenderedHtml looks for
MaxRendering == 3

----------------------------------------------------------------------------
(* JavaScript values *)

Undefined == [t |-> "undefined"]
Null == [t |-> "null"]
JsFalse == [t |-> "boolean", b |-> FALSE]
JsTrue == [t |-> "boolean", b |-> TRUE]
JsString(runs) == [t |-> "string", s |-> runs]
JsArray(elems) == [t |-> "array", a |-> elems]
\* an object literal: its own enumerable properties in insertion order
JsObject(entries) == [t |-> "object", e |-> entries]
JsBuffer(bytes) == [t |-> "buffer", b |-> bytes]
JsError(name, detail) == [t |-> "error", name |-> name, detail |-> detail]

\* ToBoolean: undefined, null, false and "" are falsy; objects are truthy
Truthy(v) ==
  CASE v.t = "undefined" -> FALSE
    [] v.t = "null" -> FALSE
    [] v.t = "boolean" -> v.b
    [] v.t = "string" -> v.s # <<>>
    [] OTHER -> TRUE

\* a || b
JsOr(a, b) == IF Truthy(a) THEN a ELSE b

----------------------------------------------------------------------------
(* Strings *)

\* Characters are named by tokens.  One representative per class that
\* length, UTF-8 encoding or JSON escaping tells apart.
\* Every character not named here is a printable ASCII character.
QuoteChar == "QUOTE"
CtrlChar == "U+0001"
Latin1Char == "U+00E9"
BmpChar == "U+20AC"
AstralChar == "U+1F600"

\* the characters String.prototype.trim removes
IsWhiteSpace(ch) == ch \in {" ", "LF", "TAB"}

\* UTF-16 code units of a character: what String.prototype.length counts
Units(ch) == IF ch = AstralChar THEN 2 ELSE 1

\* code units of a character inside a JSON string literal (JSON.stringify's
\* QuoteJSONString): \" and \\ take 2, other control characters \uXXXX
EscUnits(ch) ==
  CASE ch = QuoteChar -> 2
    [] ch \in {"LF", "TAB"} -> 2
    [] ch = CtrlChar -> 6
    [] ch = AstralChar -> 2
    [] OTHER -> 1

\* bytes of the same once the body string is encoded as UTF-8 by fetch
EscBytes(ch) ==
  CASE ch = QuoteChar -> 2
    [] ch \in {"LF", "TAB"} -> 2
    [] ch = CtrlChar -> 6
    [] ch = Latin1Char -> 2
    [] ch = BmpChar -> 3
    [] ch = AstralChar -> 4
    [] OTHER -> 1

\* the size of one character in a measure: "length" (code units of the
\* string), "units" (code units of its JSON literal), "bytes" (UTF-8 bytes of
\* its JSON literal)
CharSize(ch, measure) ==
  CASE measure = "length" -> Units(ch)
    [] measure = "units" -> EscUnits(ch)
    [] OTHER -> EscBytes(ch)

RECURSIVE SumRuns(_, _, _)
SumRuns(runs, measure, i) ==
  IF i > Len(runs) THEN 0
  ELSE runs[i][2] * CharSize(runs[i][1], measure) + SumRuns(runs, measure, i + 1)

\* s.length
StrLength(runs) == SumRuns(runs, "length", 1)

\* a string from a tuple of characters
RECURSIVE Pack(_)
Pack(chars) ==
  IF chars = <<>> THEN <<>>
  ELSE LET rest == Pack(Tail(chars))
       IN IF rest # <<>> /\ rest[1][1] = Head(chars)
          THEN <<(<<Head(chars), rest[1][2] + 1>>)>> \o Tail(rest)
          ELSE <<(<<Head(chars), 1>>)>> \o rest

\* s1 + s2
Concat(r1, r2) ==
  IF r1 = <<>> THEN r2
  ELSE IF r2 = <<>> THEN r1
  ELSE IF r1[Len(r1)][1] = r2[1][1]
       THEN SubSeq(r1, 1, Len(r1) - 1)
              \o <<(<<r2[1][1], r1[Len(r1)][2] + r2[1][2]>>)>> \o Tail(r2)
       ELSE r1 \o r2

\* n copies of ch
Repeat(ch, n) == IF n = 0 THEN <<>> ELSE <<(<<ch, n>>)>>

\* String.prototype.trim
RECURSIVE TrimStart(_)
TrimStart(runs) ==
  IF runs # <<>> /\ IsWhiteSpace(runs[1][1]) THEN TrimStart(Tail(runs)) ELSE runs
RECURSIVE TrimEnd(_)
TrimEnd(runs) ==
  IF runs # <<>> /\ IsWhiteSpace(runs[Len(runs)][1])
  THEN TrimEnd(SubSeq(runs, 1, Len(runs) - 1)) ELSE runs
Trim(runs) == TrimEnd(TrimStart(runs))

----------------------------------------------------------------------------
(* JSON.stringify: the length of the text and of its UTF-8 encoding *)

\* decimal digits of a byte value
Digits(n) == IF n < 10 THEN 1 ELSE IF n < 100 THEN 2 ELSE 3

RECURSIVE JsonSize(_, _)
RECURSIVE JsonSeqSize(_, _, _)
RECURSIVE JsonEntriesSize(_, _, _)
\* Serialized(v): whether a property holding v is written at all
Serialized(v) == v.t # "undefined"
\* the size of JSON.stringify(v), in code units (W = "units") or bytes (W = "bytes")
JsonSize(v, W) ==
  CASE v.t = "string" -> 2 + SumRuns(v.s, W, 1)
    [] v.t = "null" -> 4
    [] v.t = "boolean" -> IF v.b THEN 4 ELSE 5
    [] v.t = "array" -> 2 + JsonSeqSize(v.a, W, 1) + (IF Len(v.a) > 1 THEN Len(v.a) - 1 ELSE 0)
    [] v.t = "object" ->
         LET kept == SelectSeq(v.e, LAMBDA kv : Serialized(kv[2]))
         IN 2 + JsonEntriesSize(kept, W, 1) + (IF Len(kept) > 1 THEN Len(kept) - 1 ELSE 0)
    \* Buffer.prototype.toJSON: {"type":"Buffer","data":[1,2]}
    [] v.t = "buffer" ->
         25 + (IF Len(v.b) > 1 THEN Len(v.b) - 1 ELSE 0)
            + JsonSeqSize([i \in DOMAIN v.b |-> [t |-> "digits", n |-> Digits(v.b[i])]], W, 1) + 2
    [] v.t = "digits" -> v.n
    \* a React element: an opaque object whose serialization the core never reads
    [] v.t = "react" -> IF W = "units" THEN v.jsonUnits ELSE v.jsonBytes
    [] OTHER -> 4
\* the elements of an array (undefined is written as null)
JsonSeqSize(a, W, i) ==
  IF i > Len(a) THEN 0 ELSE JsonSize(a[i], W) + JsonSeqSize(a, W, i + 1)
\* "key":value for each kept property
JsonEntriesSize(e, W, i) ==
  IF i > Len(e) THEN 0
  ELSE 2 + SumRuns(e[i][1], W, 1) + 1 + JsonSize(e[i][2], W) + JsonEntriesSize(e, W, i + 1)

\* JSON.stringify(v).length
JsonLength(v) == JsonSize(v, "units")
\* the bytes of JSON.stringify(v) on the wire
JsonBytes(v) == JsonSize(v, "bytes")

----------------------------------------------------------------------------
(* The data model: types.ts *)

\* property names, as strings
KeyFrom == Pack(<<"f", "r", "o", "m">>)
KeyName == Pack(<<"n", "a", "m", "e">>)
KeyTo == Pack(<<"t", "o">>)
KeySubject == Pack(<<"s", "u", "b", "j", "e", "c", "t">>)
KeyHtml == Pack(<<"h", "t", "m", "l">>)
KeyText == Pack(<<"t", "e", "x", "t">>)
KeyReact == Pack(<<"r", "e", "a", "c", "t">>)
KeyAttachments == Pack(<<"a", "t", "t", "a", "c", "h", "m", "e", "n", "t", "s">>)
KeyReplyTo == Pack(<<"r", "e", "p", "l", "y", "T", "o">>)
KeyTags == Pack(<<"t", "a", "g", "s">>)
KeyHeaders == Pack(<<"h", "e", "a", "d", "e", "r", "s">>)
KeyCc == Pack(<<"c", "c">>)
KeyFilename == Pack(<<"f", "i", "l", "e", "n", "a", "m", "e">>)
KeyFilepath == Pack(<<"f", "i", "l", "e", "p", "a", "t", "h">>)
KeyContentType == Pack(<<"c", "o", "n", "t", "e", "n", "t", "T", "y", "p", "e">>)
KeyContent == Pack(<<"c", "o", "n", "t", "e", "n", "t">>)

\* interface EmailOptions: a property that is absent holds Undefined;
\* attachments is Undefined or an array of references into the attachment heap
EmailOptions(from, to, subject, html) ==
  [from |-> from, name |-> Undefined, to |-> to, subject |-> subject, html |-> html,
   text |-> Undefined, react |-> Undefined, attachments |-> Undefined,
   replyTo |-> Undefined, tags |-> Undefined, headers |-> Undefined, cc |-> Undefined]

\* interface Attachment
Attachment(filepath, filename, contentType, content) ==
  [filename |-> filename, filepath |-> filepath, contentType |-> contentType,
   content |-> content]

\* a reference to the attachment object k
AttRef(k) == [t |-> "ref", id |-> k]

\* the options object as it is at one moment: its properties, and those of
\* the attachment objects it refers to (in the heap ah)
Frozen(o, ah) ==
  [o EXCEPT !.attachments =
     IF @.t = "array" THEN [t |-> "array", a |-> [i \in DOMAIN @.a |-> ah[@.a[i].id]]]
     ELSE @]

\* the attachment object as JSON.stringify sees it
AttachmentValue(a) ==
  JsObject(<<(<<KeyFilename, a.filename>>), <<KeyFilepath, a.filepath>>,
             <<KeyContentType, a.contentType>>, <<KeyContent, a.content>>>>)

\* the frozen options object as JSON.stringify sees it
OptionsValue(o) ==
  JsObject(<<(<<KeyFrom, o.from>>), <<KeyName, o.name>>, <<KeyTo, o.to>>,
             <<KeySubject, o.subject>>, <<KeyHtml, o.html>>, <<KeyText, o.text>>,
             <<KeyReact, o.react>>,
             <<KeyAttachments,
               IF o.attachments.t = "array"
               THEN JsArray([i \in DOMAIN o.attachments.a |->
                              AttachmentValue(o.attachments.a[i])])
               ELSE o.attachments>>,
             <<KeyReplyTo, o.replyTo>>, <<KeyTags, o.tags>>,
             <<KeyHeaders, o.headers>>, <<KeyCc, o.cc>>>>)

----------------------------------------------------------------------------
(* Collaborators: path.basename, mime.lookup, Buffer base64 *)

\* the characters of a string, one by one
RECURSIVE Unpack(_)
Unpack(runs) ==
  IF runs = <<>> THEN <<>>
  ELSE <<runs[1][1]>>
         \o Unpack(IF runs[1][2] = 1 THEN Tail(runs)
                   ELSE <<(<<runs[1][1], runs[1][2] - 1>>)>> \o Tail(runs))

\* the last index of ch in chars at or before position i, 0 when there is none
RECURSIVE LastIndexOf(_, _, _)
LastIndexOf(chars, ch, i) ==
  IF i = 0 THEN 0 ELSE IF chars[i] = ch THEN i ELSE LastIndexOf(chars, ch, i - 1)

\* chars without its trailing slashes
RECURSIVE DropTrailingSlashes(_)
DropTrailingSlashes(chars) ==
  IF chars # <<>> /\ chars[Len(chars)] = "/"
  THEN DropTrailingSlashes(SubSeq(chars, 1, Len(chars) - 1)) ELSE chars

\* the path taken whole for its last segment
BasenameWhole(runs) == runs

\* path.basename (posix): the last segment of the path
Basename(runs) ==
  LET chars == DropTrailingSlashes(Unpack(runs))
      cut == LastIndexOf(chars, "/", Len(chars))
  IN Pack(SubSeq(chars, cut + 1, Len(chars)))

MimeTextPlain == Pack(<<"t", "e", "x", "t", "/", "p", "l", "a", "i", "n">>)
MimePdf == Pack(<<"a", "p", "p", "l", "i", "c", "a", "t", "i", "o", "n", "/", "p", "d", "f">>)
MimeOctetStream ==
  Pack(<<"a", "p", "p", "l", "i", "c", "a", "t", "i", "o", "n", "/",
         "o", "c", "t", "e", "t", "-", "s", "t", "r", "e", "a", "m">>)

\* mime.lookup: the type of the extension of "x." + path, or false
MimeLookup(runs) ==
  LET chars == <<"x", ".">> \o Unpack(runs)
      base == SubSeq(chars, LastIndexOf(chars, "/", Len(chars)) + 1, Len(chars))
      dot == LastIndexOf(base, ".", Len(base))
      ext == IF dot <= 1 THEN <<>> ELSE SubSeq(base, dot + 1, Len(base))
  IN CASE ext = <<"t", "x", "t">> -> JsString(MimeTextPlain)
       [] ext = <<"p", "d", "f">> -> JsString(MimePdf)
       [] OTHER -> JsFalse

B64Alphabet ==
  <<"A", "B", "C", "D", "E", "F", "G", "H", "I", "J", "K", "L", "M", "N", "O", "P",
    "Q", "R", "S", "T", "U", "V", "W", "X", "Y", "Z", "a", "b", "c", "d", "e", "f",
    "g", "h", "i", "j", "k", "l", "m", "n", "o", "p", "q", "r", "s", "t", "u", "v",
    "w", "x", "y", "z", "0", "1", "2", "3", "4", "5", "6", "7", "8", "9", "+", "/">>

\* buf.toString("base64"), as characters
RECURSIVE Base64Chars(_)
Base64Chars(b) ==
  IF b = <<>> THEN <<>>
  ELSE IF Len(b) = 1
       THEN <<B64Alphabet[(b[1] \div 4) + 1], B64Alphabet[(b[1] % 4) * 16 + 1], "=", "=">>
  ELSE IF Len(b) = 2
       THEN <<B64Alphabet[(b[1] \div 4) + 1],
              B64Alphabet[(b[1] % 4) * 16 + (b[2] \div 16) + 1],
              B64Alphabet[(b[2] % 16) * 4 + 1], "=">>
  ELSE <<B64Alphabet[(b[1] \div 4) + 1],
         B64Alphabet[(b[1] % 4) * 16 + (b[2] \div 16) + 1],
         B64Alphabet[(b[2] % 16) * 4 + (b[3] \div 64) + 1],
         B64Alphabet[(b[3] % 64) + 1]>> \o Base64Chars(SubSeq(b, 4, Len(b)))

\* buf.toString("base64")
ToBase64(b) == Pack(Base64Chars(b))

\* the value of a base64 digit, -1 for any other character
B64Value(ch) ==
  IF \E i \in DOMAIN B64Alphabet : B64Alphabet[i] = ch
  THEN (CHOOSE i \in DOMAIN B64Alphabet : B64Alphabet[i] = ch) - 1
  ELSE IF ch = "-" THEN 62 ELSE IF ch = "_" THEN 63 ELSE -1

\* the digits Buffer.from(s, "base64") decodes: it stops at the first "=" and
\* skips every character that is no digit
RECURSIVE B64Digits(_)
B64Digits(chars) ==
  IF chars = <<>> \/ Head(chars) = "=" THEN <<>>
  ELSE IF B64Value(Head(chars)) < 0 THEN B64Digits(Tail(chars))
  ELSE <<B64Value(Head(chars))>> \o B64Digits(Tail(chars))

RECURSIVE B64Bytes(_)
B64Bytes(d) ==
  IF Len(d) < 2 THEN <<>>
  ELSE IF Len(d) = 2 THEN <<d[1] * 4 + (d[2] \div 16)>>
  ELSE IF Len(d) = 3 THEN <<d[1] * 4 + (d[2] \div 16), (d[2] % 16) * 16 + (d[3] \div 4)>>
  ELSE <<d[1] * 4 + (d[2] \div 16), (d[2] % 16) * 16 + (d[3] \div 4),
         (d[3] % 4) * 64 + d[4]>> \o B64Bytes(SubSeq(d, 5, Len(d)))

\* Buffer.from(s, "base64")
FromBase64(runs) == B64Bytes(B64Digits(Unpack(runs)))

----------------------------------------------------------------------------
(* The state of the program *)

VARIABLES
  http,          \* the Shoutbox instance: its state, revision and apiKey
  smtp,          \* the SMTPClient instance: its state and the transporter's pass
  opts,          \* the caller's EmailOptions objects
  atts,          \* the caller's Attachment objects
  calls,         \* the async calls, by id: in flight, or settled since the
                 \* caller's last call
  aggs,          \* the Promise.all aggregates of sendEmails, likewise
  requests,      \* the fetch calls issued
  submissions,   \* the transporter.sendMail calls issued
  made,          \* how many calls the caller has made
  sent           \* how many emails it has sent with them

vars == <<http, smtp, opts, atts, calls, aggs, requests, submissions, made, sent>>

Pending == [state |-> "pending", value |-> Undefined]
Fulfilled(v) == [state |-> "fulfilled", value |-> v]
Rejected(e) == [state |-> "rejected", value |-> e]

\* An async call: the dispatcher and method, the options object it was given,
\* the aggregate it belongs to (0: none), where it is suspended, its locals
\* (i, extraHeaders, attachments, emailContent, response), what it wrote to
\* the console, the state of the promise it returned, and the last answer a
\* collaborator gave it.
NewCall(disp, op, opt, agg) ==
  [disp |-> disp, op |-> op, opt |-> opt, agg |-> agg, pc |-> "start", i |-> 1,
   extraHeaders |-> <<>>, attachments |-> <<>>, emailContent |-> Undefined,
   response |-> Undefined, logged |-> <<>>, outcome |-> Pending, answer |-> Undefined]

\* return v / throw e out of the async function
Return(c, v) == [c EXCEPT !.pc = "done", !.outcome = Fulfilled(v)]
Throw(c, e) == [c EXCEPT !.pc = "done", !.outcome = Rejected(e)]
\* console.log / console.error
Log(c, level, what, v) ==
  [c EXCEPT !.logged = Append(@, [level |-> level, what |-> what, value |-> v])]

----------------------------------------------------------------------------
(* class Shoutbox: the HTTP dispatcher *)

MaxBodyLength == 1024 * 1024

ApiKeyRequired == JsError("Error", "API key is required for Shoutbox")

\* a constructor that falls back on the environment for undefined alone and
\* refuses only the empty string
ShoutboxConstructorLax(apiKey, envKey) ==
  LET key == IF apiKey = Undefined THEN envKey ELSE apiKey
  IN IF key.t = "undefined" \/ (key.t = "string" /\ Trim(key.s) = <<>>)
     THEN [state |-> "threw", apiKey |-> Undefined, error |-> ApiKeyRequired]
     ELSE [state |-> "constructed", apiKey |-> key, error |-> Undefined]

\* constructor(apiKey), current revision
ShoutboxConstructor(apiKey, envKey) ==
  LET key == IF apiKey = Undefined THEN envKey ELSE apiKey
  IN IF ~Truthy(key) \/ (key.t = "string" /\ Trim(key.s) = <<>>)
     THEN [state |-> "threw", apiKey |-> Undefined, error |-> ApiKeyRequired]
     ELSE [state |-> "constructed", apiKey |-> key, error |-> Undefined]

\* constructor(apiKey), earlier revision
ShoutboxConstructorLegacy(apiKey, envKey) ==
  LET key == JsOr(apiKey, envKey)
  IN IF ~Truthy(key)
     THEN [state |-> "threw", apiKey |-> key, error |-> ApiKeyRequired]
     ELSE [state |-> "constructed", apiKey |-> key, error |-> Undefined]

\* the letters of the patterns below, lower-cased (the /i flag)
Lower(ch) ==
  CASE ch = "D" -> "d" [] ch = "O" -> "o" [] ch = "C" -> "c" [] ch = "T" -> "t"
    [] ch = "Y" -> "y" [] ch = "P" -> "p" [] ch = "E" -> "e" [] ch = "H" -> "h"
    [] ch = "M" -> "m" [] ch = "L" -> "l" [] OTHER -> ch

\* the literal pat occurs in chars at position i
MatchAt(chars, i, pat, ignoreCase) ==
  /\ i + Len(pat) - 1 <= Len(chars)
  /\ \A j \in DOMAIN pat :
       IF ignoreCase THEN Lower(chars[i + j - 1]) = Lower(pat[j])
       ELSE chars[i + j - 1] = pat[j]

\* the first index of ch in chars at or after position i, 0 when there is none
RECURSIVE IndexFrom(_, _, _)
IndexFrom(chars, ch, i) ==
  IF i > Len(chars) THEN 0 ELSE IF chars[i] = ch THEN i ELSE IndexFrom(chars, ch, i + 1)

PatDoctype == <<"<", "!", "D", "O", "C", "T", "Y", "P", "E">>
PatHtmlOpen == <<"<", "h", "t", "m", "l">>
PatHtmlClose == <<"<", "/", "h", "t", "m", "l">>

\* .replace(/<!DOCTYPE[^>]*>/i, ""): the first match only
RECURSIVE RemoveDoctype(_, _)
RemoveDoctype(chars, i) ==
  IF i > Len(chars) THEN chars
  ELSE LET close == IndexFrom(chars, ">", i + Len(PatDoctype))
       IN IF MatchAt(chars, i, PatDoctype, TRUE) /\ close # 0
          THEN SubSeq(chars, 1, i - 1) \o SubSeq(chars, close + 1, Len(chars))
          ELSE RemoveDoctype(chars, i + 1)

\* .replace(/<\/?html[^>]*>/gi, ""): every match, left to right
RECURSIVE RemoveHtmlTags(_, _)
RemoveHtmlTags(chars, i) ==
  IF i > Len(chars) THEN <<>>
  ELSE LET after == IF MatchAt(chars, i, PatHtmlClose, TRUE) THEN i + Len(PatHtmlClose)
                    ELSE IF MatchAt(chars, i, PatHtmlOpen, TRUE) THEN i + Len(PatHtmlOpen)
                    ELSE 0
           close == IF after = 0 THEN 0 ELSE IndexFrom(chars, ">", after)
       IN IF close # 0 THEN RemoveHtmlTags(chars, close + 1)
          ELSE <<chars[i]>> \o RemoveHtmlTags(chars, i + 1)

\* .replace(/\$<|>\$\//g, "<")
RECURSIVE ReplaceMarkers(_, _)
ReplaceMarkers(chars, i) ==
  IF i > Len(chars) THEN <<>>
  ELSE IF MatchAt(chars, i, <<"$", "<">>, FALSE) THEN <<"<">> \o ReplaceMarkers(chars, i + 2)
  ELSE IF MatchAt(chars, i, <<">", "$", "/">>, FALSE)
       THEN <<"<">> \o ReplaceMarkers(chars, i + 3)
  ELSE <<chars[i]>> \o ReplaceMarkers(chars, i + 1)

\* .replace(/\$|\/\$/g, "")
RECURSIVE RemoveMarkers(_, _)
RemoveMarkers(chars, i) ==
  IF i > Len(chars) THEN <<>>
  ELSE IF chars[i] = "$" THEN RemoveMarkers(chars, i + 1)
  ELSE IF MatchAt(chars, i, <<"/", "$">>, FALSE) THEN RemoveMarkers(chars, i + 2)
  ELSE <<chars[i]>> \o RemoveMarkers(chars, i + 1)

\* cleanRenderedHtml(html)
\* the rendering passed on as it is
cleanRenderedHtmlNone(html) == html

cleanRenderedHtml(html) ==
  Trim(Pack(RemoveMarkers(ReplaceMarkers(RemoveHtmlTags(
         RemoveDoctype(Unpack(html), 1), 1), 1), 1)))

----------------------------------------------------------------------------
(* The collaborators' answers *)

PathPresent == Pack(<<"/", "d", "/", "a", ".", "t", "x", "t">>)
PathMissing == Pack(<<"/", "d", "/", "m">>)

\* the file system: the bytes of the files that exist
FileBytes(path) == IF path = PathPresent THEN <<72, 105>> ELSE <<>>
FileExists(path) == path = PathPresent

\* fs.promises.readFile(path): the bytes, or the I/O error
ReadFile(path) ==
  IF FileExists(path) THEN Fulfilled(JsBuffer(FileBytes(path)))
  ELSE Rejected(JsError("ENOENT", path))

\* render(element): the HTML string, or the error the component throws
Render(element) ==
  IF element.renders.t = "string" THEN Fulfilled(element.renders)
  ELSE Rejected(element.renders)

\* what the server may answer: a status, and a body that is JSON or not
Responses ==
  {[t |-> "response", ok |-> TRUE, status |-> 200, isJson |-> TRUE, body |-> "emailid"],
   [t |-> "response", ok |-> TRUE, status |-> 204, isJson |-> FALSE, body |-> ""],
   [t |-> "response", ok |-> FALSE, status |-> 401, isJson |-> FALSE, body |-> "denied"]}

NetworkError == JsError("TypeError", "fetch failed")
BodyReadError == JsError("TypeError", "terminated")
JsonSyntaxError == JsError("SyntaxError", "Unexpected end of JSON input")

\* fetch(...): a response, or a network-level failure
FetchOutcomes == {Fulfilled(r) : r \in Responses} \cup {Rejected(NetworkError)}

\* response.json(): the parsed body, a SyntaxError, or the failure of the read
JsonOutcomes(r) ==
  {IF r.isJson THEN Fulfilled([t |-> "json", of |-> r.body])
   ELSE Rejected(JsonSyntaxError),
   Rejected(BodyReadError)}

\* response.text(): the body text, or the failure of the read
TextOutcomes(r) ==
  {Fulfilled([t |-> "text", of |-> r.body]), Rejected(BodyReadError)}

----------------------------------------------------------------------------
(* Shoutbox.send.  A world w holds everything a call can change:           *)
(* [opts, atts, requests, submissions, calls]; an operator (w, c) runs     *)
(* call c on, up to its next await.                                        *)

HeaderAuthorization ==
  Pack(<<"A", "u", "t", "h", "o", "r", "i", "z", "a", "t", "i", "o", "n">>)
HeaderContentType ==
  Pack(<<"C", "o", "n", "t", "e", "n", "t", "-", "T", "y", "p", "e">>)
Bearer == Pack(<<"B", "e", "a", "r", "e", "r", " ">>)
ApplicationJson ==
  Pack(<<"a", "p", "p", "l", "i", "c", "a", "t", "i", "o", "n", "/", "j", "s", "o", "n">>)

\* a spread in which an earlier property of the same name is kept
RECURSIVE SpreadUnder(_, _)
SpreadUnder(entries, more) ==
  IF more = <<>> THEN entries
  ELSE SpreadUnder(IF \E i \in DOMAIN entries : entries[i][1] = Head(more)[1]
                   THEN entries ELSE Append(entries, Head(more)),
                   Tail(more))

\* { ...entries, key: value }: a later property of the same name replaces
\* the value and keeps the place
RECURSIVE Spread(_, _)
Spread(entries, more) ==
  IF more = <<>> THEN entries
  ELSE LET kv == Head(more)
           at == {i \in DOMAIN entries : entries[i][1] = kv[1]}
       IN Spread(IF at = {} THEN Append(entries, kv)
                 ELSE [i \in DOMAIN entries |-> IF i \in at THEN kv ELSE entries[i]],
                 Tail(more))

\* the body-size error of send
BodyTooLarge(length) ==
  JsError("Error", [message |-> "Body too large, expect 1MB, bytes given", given |-> length])

\* the check with the limit itself refused
BodyFitsBelow(length) == ~(length >= MaxBodyLength)

BodyFits(length) == ~(length > MaxBodyLength)

\* lines 70-86: serialize, check the size, issue the request
ShoutboxPost(w, c) ==
  LET call == w.calls[c]
      emailContent == Frozen(w.opts[call.opt], w.atts)
      length == JsonLength(OptionsValue(emailContent))
  IN IF ~BodyFits(length)
     THEN [w EXCEPT !.calls[c] = Throw([call EXCEPT !.emailContent = emailContent],
                                       BodyTooLarge(length))]
     ELSE [w EXCEPT !.calls[c].pc = "fetch",
                    !.calls[c].emailContent = emailContent,
                    !.requests = Append(@,
                       [call |-> c,
                        headers |->
                          Spread(<<(<<HeaderAuthorization, JsString(Concat(Bearer, http.apiKey.s))>>),
                                   <<HeaderContentType, JsString(ApplicationJson)>>>>,
                                 call.extraHeaders),
                        body |-> emailContent])]

\* the defaults of one attachment with no lookup of the type
ResolveAttachmentOctet(e) ==
  LET e1 == IF ~Truthy(e.filename) THEN [e EXCEPT !.filename = JsString(Basename(e.filepath.s))]
            ELSE e
      e2 == IF ~Truthy(e1.contentType)
            THEN [e1 EXCEPT !.contentType = JsString(MimeOctetStream)]
            ELSE e1
  IN IF e2.content.t = "buffer"
     THEN [e2 EXCEPT !.content = JsString(ToBase64(e2.content.b))]
     ELSE e2

\* lines 59-67: the defaults of one attachment, and its content as base64
ResolveAttachment(e) ==
  LET e1 == IF ~Truthy(e.filename) THEN [e EXCEPT !.filename = JsString(Basename(e.filepath.s))]
            ELSE e
      e2 == IF ~Truthy(e1.contentType)
            THEN [e1 EXCEPT !.contentType =
                    JsOr(MimeLookup(e1.filename.s), JsString(MimeOctetStream))]
            ELSE e1
  IN IF e2.content.t = "buffer"
     THEN [e2 EXCEPT !.content = JsString(ToBase64(e2.content.b))]
     ELSE e2

\* options.attachments || []
AttachmentList(o) == IF Truthy(o.attachments) THEN o.attachments.a ELSE <<>>

\* lines 55-68: the attachment loop, from the element call.i on
RECURSIVE ShoutboxAttachments(_, _)
ShoutboxAttachments(w, c) ==
  LET call == w.calls[c]
      list == AttachmentList(w.opts[call.opt])
  IN IF call.i > Len(list) THEN ShoutboxPost(w, c)
     ELSE LET k == list[call.i].id
          IN IF ~Truthy(w.atts[k].content)
             THEN [w EXCEPT !.calls[c].pc = "read"]
             ELSE ShoutboxAttachments(
                    [w EXCEPT !.atts[k] = ResolveAttachment(@), !.calls[c].i = @ + 1], c)

\* lines 41-52: extract the headers, then render the template if any
send(w, c) ==
  LET call == w.calls[c]
      o == w.opts[call.opt]
      w1 == IF Truthy(o.headers)
            THEN [w EXCEPT !.calls[c].extraHeaders = Spread(<<>>, o.headers.e),
                           !.opts[call.opt].headers = Undefined]
            ELSE w
  IN IF Truthy(o.react)
     THEN [w1 EXCEPT !.calls[c].pc = "render"]
     ELSE ShoutboxAttachments(w1, c)

\* a send that keeps the html the caller has set over the rendered template
ShoutboxRenderedUnder(w, c, outcome) ==
  IF outcome.state = "rejected"
  THEN [w EXCEPT !.calls[c] = Throw(@, outcome.value)]
  ELSE ShoutboxAttachments(
         [w EXCEPT !.opts[w.calls[c].opt].html =
                      JsOr(@, JsString(cleanRenderedHtml(outcome.value.s)))],
         c)

\* render(options.react) has settled
ShoutboxRendered(w, c, outcome) ==
  IF outcome.state = "rejected"
  THEN [w EXCEPT !.calls[c] = Throw(@, outcome.value)]
  ELSE ShoutboxAttachments(
         [w EXCEPT !.opts[w.calls[c].opt].html = JsString(cleanRenderedHtml(outcome.value.s))],
         c)

\* a loop that passes over an attachment it cannot read
ShoutboxFileReadSkip(w, c, outcome) ==
  LET call == w.calls[c]
      k == AttachmentList(w.opts[call.opt])[call.i].id
  IN IF outcome.state = "rejected"
     THEN ShoutboxAttachments([w EXCEPT !.calls[c].i = @ + 1], c)
     ELSE ShoutboxAttachments(
            [w EXCEPT !.atts[k] = ResolveAttachment([@ EXCEPT !.content = outcome.value]),
                      !.calls[c].i = @ + 1], c)

\* the bytes read kept on the attachment as they are, and the loop resumed at
\* the next element
ShoutboxFileReadRaw(w, c, outcome) ==
  LET call == w.calls[c]
      k == AttachmentList(w.opts[call.opt])[call.i].id
  IN IF outcome.state = "rejected"
     THEN [w EXCEPT !.calls[c] = Throw(@, outcome.value)]
     ELSE ShoutboxAttachments(
            [w EXCEPT !.atts[k].content = outcome.value, !.calls[c].i = @ + 1], c)

\* readFile(e.filepath) has settled: line 57, then the rest of the loop
ShoutboxFileRead(w, c, outcome) ==
  LET call == w.calls[c]
      k == AttachmentList(w.opts[call.opt])[call.i].id
  IN IF outcome.state = "rejected"
     THEN [w EXCEPT !.calls[c] = Throw(@, outcome.value)]
     ELSE ShoutboxAttachments(
            [w EXCEPT !.atts[k] = ResolveAttachment([@ EXCEPT !.content = outcome.value]),
                      !.calls[c].i = @ + 1], c)

\* a catch around fetch that logs the failure and lets the send return
ShoutboxFetchedSwallow(call, outcome) ==
  IF outcome.state = "rejected"
  THEN Return(Log(call, "error", "Error during fetch operation:", outcome.value), Undefined)
  ELSE [call EXCEPT !.response = outcome.value,
                    !.pc = IF outcome.value.ok THEN "json" ELSE "text"]

\* fetch has settled: lines 88-96
ShoutboxFetched(call, outcome) ==
  IF outcome.state = "rejected"
  THEN Throw(Log(call, "error", "Error during fetch operation:", outcome.value),
             outcome.value)
  ELSE [call EXCEPT !.response = outcome.value,
                    !.pc = IF outcome.value.ok THEN "json" ELSE "text"]

\* the body read, with what was read returned to the caller
ShoutboxBodyReturned(call, outcome) ==
  IF outcome.state = "rejected"
  THEN Throw(Log(call, "error", "Error during fetch operation:", outcome.value),
             outcome.value)
  ELSE IF call.pc = "json"
       THEN Return(Log(call, "log", "Email sent successfully:", outcome.value), outcome.value)
       ELSE Return(Log(call, "error", "Failed to send email:", outcome.value), outcome.value)

\* response.json() or response.text() has settled: lines 89, 91, 93-96
ShoutboxBodyRead(call, outcome) ==
  IF outcome.state = "rejected"
  THEN Throw(Log(call, "error", "Error during fetch operation:", outcome.value),
             outcome.value)
  ELSE IF call.pc = "json"
       THEN Return(Log(call, "log", "Email sent successfully:", outcome.value), Undefined)
       ELSE Return(Log(call, "error", "Failed to send email:", outcome.value), Undefined)

----------------------------------------------------------------------------
(* class SMTPClient: the SMTP dispatcher *)

\* constructor(apiKey): nodemailer.createTransport keeps the options and
\* opens no connection
SMTPClientConstructor(apiKey) ==
  [state |-> "constructed", host |-> "mail.shoutbox.net", port |-> 587, secure |-> FALSE,
   user |-> "shoutbox", pass |-> apiKey, rejectUnauthorized |-> TRUE]

\* the first run of the character ch at or after the run i, 0 when there is none
RECURSIVE RunFrom(_, _, _)
RunFrom(runs, ch, i) ==
  IF i > Len(runs) THEN 0 ELSE IF runs[i][1] = ch THEN i ELSE RunFrom(runs, ch, i + 1)

\* html.replace(/<[^>]*>/g, ""), run by run: a "<" and all up to the next ">"
\* go; a "<" with no ">" after it stays, and so does all that follows it
RECURSIVE StripTags(_)
StripTags(runs) ==
  IF runs = <<>> THEN <<>>
  ELSE IF runs[1][1] = "<"
       THEN LET close == RunFrom(runs, ">", 2)
            IN IF close = 0 THEN runs
               ELSE Concat(Repeat(">", runs[close][2] - 1),
                           StripTags(SubSeq(runs, close + 1, Len(runs))))
  ELSE Concat(<<runs[1]>>, StripTags(Tail(runs)))

\* a fallback that leaves the tags in
stripHtmlNone(html) == html

stripHtml(html) == StripTags(html)

CommaSpace == Pack(<<",", " ">>)

\* array.join(", ")
RECURSIVE Join(_)
Join(a) ==
  IF a = <<>> THEN <<>>
  ELSE IF Len(a) = 1 THEN a[1].s
  ELSE Concat(Concat(a[1].s, CommaSpace), Join(Tail(a)))

\* the first address of a list taken for the list
JoinIfArrayFirst(v) == IF v.t = "array" THEN v.a[1] ELSE v

\* Array.isArray(v) ? v.join(", ") : v
JoinIfArray(v) == IF v.t = "array" THEN JsString(Join(v.a)) ELSE v

\* lines 48-58: the message handed to the transporter
MailOptions(o, attachments) ==
  [from |-> IF Truthy(o.name)
            THEN JsString(Concat(Concat(Concat(o.name.s, Pack(<<" ", "<">>)), o.from.s),
                                 Pack(<<">">>)))
            ELSE o.from,
   to |-> JoinIfArray(o.to),
   cc |-> IF Truthy(o.cc) THEN JoinIfArray(o.cc) ELSE Undefined,
   subject |-> o.subject,
   html |-> o.html,
   text |-> IF Truthy(o.text) THEN o.text
            ELSE IF Truthy(o.html) THEN JsString(stripHtml(o.html.s)) ELSE Undefined,
   replyTo |-> o.replyTo,
   attachments |-> attachments,
   headers |-> JsOr(o.headers, JsObject(<<>>))]

\* a catch that logs the error and does not throw it again
SmtpSwallow(call, error) == Return(Log(call, "error", "SMTP Error:", error), Undefined)

\* a catch that throws a new error in place of the one it caught
SmtpCatchWrapped(call, error) ==
  Throw(Log(call, "error", "SMTP Error:", error), JsError("Error", "SMTP send failed"))

\* the catch of sendEmail, lines 63-66
SmtpCatch(call, error) == Throw(Log(call, "error", "SMTP Error:", error), error)

\* lines 37-44: the part pushed for one attachment, its content in hand
SmtpPart(attachment, content) ==
  LET filename == JsOr(attachment.filename, JsString(Basename(attachment.filepath.s)))
  IN [filename |-> filename,
      content |-> IF content.t = "string" THEN JsBuffer(FromBase64(content.s)) ELSE content,
      contentType |-> JsOr(attachment.contentType,
                           JsOr(MimeLookup(filename.s), JsString(MimeOctetStream)))]

\* the message handed to the transporter, and handed to it once more
SmtpSubmitTwice(w, c) ==
  LET submission == [call |-> c, mail |-> MailOptions(w.opts[w.calls[c].opt],
                                                      w.calls[c].attachments)]
  IN [w EXCEPT !.calls[c].pc = "sendMail",
               !.submissions = Append(Append(@, submission), submission)]

\* lines 48-61: build the message and hand it to the transporter
SmtpSubmit(w, c) ==
  [w EXCEPT !.calls[c].pc = "sendMail",
            !.submissions = Append(@,
               [call |-> c, mail |-> MailOptions(w.opts[w.calls[c].opt],
                                                 w.calls[c].attachments)])]

\* lines 34-45: the attachment loop, from the element call.i on
RECURSIVE SmtpAttachments(_, _)
SmtpAttachments(w, c) ==
  LET call == w.calls[c]
      list == AttachmentList(w.opts[call.opt])
  IN IF call.i > Len(list) THEN SmtpSubmit(w, c)
     ELSE LET attachment == w.atts[list[call.i].id]
          IN IF ~Truthy(attachment.content)
             THEN [w EXCEPT !.calls[c].pc = "read"]
             ELSE SmtpAttachments(
                    [w EXCEPT !.calls[c].attachments =
                                 Append(@, SmtpPart(attachment, attachment.content)),
                              !.calls[c].i = @ + 1], c)

\* SMTPClient.sendEmail, lines 26-31
SmtpSendEmail(w, c) ==
  IF Truthy(w.opts[w.calls[c].opt].react)
  THEN [w EXCEPT !.calls[c].pc = "render"]
  ELSE SmtpAttachments(w, c)

\* renderAsync(options.react) has settled: line 30
SmtpRendered(w, c, outcome) ==
  IF outcome.state = "rejected"
  THEN [w EXCEPT !.calls[c] = SmtpCatch(@, outcome.value)]
  ELSE SmtpAttachments([w EXCEPT !.opts[w.calls[c].opt].html = outcome.value], c)

\* the bytes read stored on the caller's attachment, as the HTTP send does
SmtpFileReadInPlace(w, c, outcome) ==
  LET call == w.calls[c]
      k == AttachmentList(w.opts[call.opt])[call.i].id
  IN IF outcome.state = "rejected"
     THEN [w EXCEPT !.calls[c] = SmtpCatch(@, outcome.value)]
     ELSE SmtpAttachments(
            [w EXCEPT !.atts[k].content = outcome.value,
                      !.calls[c].attachments = Append(@, SmtpPart(w.atts[k], outcome.value)),
                      !.calls[c].i = @ + 1], c)

\* readFile(attachment.filepath) has settled: line 36, then the rest of the loop
SmtpFileRead(w, c, outcome) ==
  LET call == w.calls[c]
      attachment == w.atts[AttachmentList(w.opts[call.opt])[call.i].id]
  IN IF outcome.state = "rejected"
     THEN [w EXCEPT !.calls[c] = SmtpCatch(@, outcome.value)]
     ELSE SmtpAttachments(
            [w EXCEPT !.calls[c].attachments = Append(@, SmtpPart(attachment, outcome.value)),
                      !.calls[c].i = @ + 1], c)

\* transporter.sendMail has settled: lines 61-66
SmtpSent(call, outcome) ==
  IF outcome.state = "rejected" THEN SmtpCatch(call, outcome.value)
  ELSE Return(call, Undefined)

\* verifyConnection letting the failure of transporter.verify through
verifyConnectionThrowing(call, outcome) ==
  IF outcome.state = "rejected"
  THEN Throw(Log(call, "error", "SMTP Connection Error:", outcome.value), outcome.value)
  ELSE Return(call, JsTrue)

\* transporter.verify has settled: verifyConnection, lines 78-84
verifyConnection(call, outcome) ==
  IF outcome.state = "rejected"
  THEN Return(Log(call, "error", "SMTP Connection Error:", outcome.value), JsFalse)
  ELSE Return(call, JsTrue)

\* what the transport may answer to sendMail and to verify
TransportErrors ==
  {JsError("ECONNECTION", "unreachable"), JsError("EAUTH", "authentication"),
   JsError("ETLS", "certificate")}
SendMailOutcomes == {Fulfilled([t |-> "info"])} \cup {Rejected(e) : e \in TransportErrors}
VerifyOutcomes == {Fulfilled(JsTrue)} \cup {Rejected(e) : e \in TransportErrors}

----------------------------------------------------------------------------
(* sendEmails: Promise.all(options.map(option => this.send(option))) *)

\* the method sendEmails maps over the list
Invoke(disp, w, c) == IF disp = "http" THEN send(w, c) ELSE SmtpSendEmail(w, c)

\* the smallest id no call of cs has
NewId(cs) == CHOOSE i \in 1..(Cardinality(DOMAIN cs) + 1) :
               /\ i \notin DOMAIN cs
               /\ \A j \in 1..(i - 1) : j \in DOMAIN cs

\* the world with one more call, not yet started
WithCall(w, call) == [w EXCEPT !.calls = @ @@ (NewId(@) :> call)]

\* options.map(...): each call runs up to its first await before the next
\* starts; the ids of the calls made are appended to w.elems
RECURSIVE MapSend(_, _, _, _, _)
MapSend(disp, w, list, k, g) ==
  IF k > Len(list) THEN w
  ELSE LET c == NewId(w.calls)
       IN MapSend(disp,
                  [Invoke(disp, WithCall(w, NewCall(disp, "send", list[k], g)), c)
                     EXCEPT !.elems = Append(@, c)],
                  list, k + 1, g)

Min(S) == CHOOSE m \in S : \A n \in S : m <= n
Range(f) == {f[i] : i \in DOMAIN f}

\* Promise.allSettled in its place: one outcome per element, never a failure
PromiseAllSettled(cs, elems) ==
  IF \A i \in DOMAIN elems : cs[elems[i]].outcome.state # "pending"
  THEN Fulfilled(JsArray([i \in DOMAIN elems |-> cs[elems[i]].outcome]))
  ELSE Pending

\* a combinator that does not wait: it takes the first element's outcome
PromiseFirst(cs, elems) ==
  IF cs[elems[1]].outcome.state = "fulfilled"
  THEN Fulfilled(JsArray(<<cs[elems[1]].outcome.value>>))
  ELSE cs[elems[1]].outcome

\* Promise.all over promises of which some may have settled already: the
\* reactions run in the order of the list
PromiseAll(cs, elems) ==
  LET rejected == {i \in DOMAIN elems : cs[elems[i]].outcome.state = "rejected"}
  IN IF rejected # {} THEN Rejected(cs[elems[Min(rejected)]].outcome.value)
     ELSE IF \A i \in DOMAIN elems : cs[elems[i]].outcome.state = "fulfilled"
          THEN Fulfilled(JsArray([i \in DOMAIN elems |-> cs[elems[i]].outcome.value]))
          ELSE Pending

\* Promise.all's reaction to the settling of the element call c
PromiseAllReact(ag, cs, c) ==
  [g \in DOMAIN ag |->
     IF cs[c].agg = g /\ c \in Range(ag[g].elems) /\ ag[g].outcome.state = "pending"
        /\ cs[c].outcome.state # "pending"
     THEN [ag[g] EXCEPT !.outcome = PromiseAll(cs, ag[g].elems)]
     ELSE ag[g]]

----------------------------------------------------------------------------
(* The caller: the credentials, options and attachments it may use *)

KeyGood == JsString(Pack(<<"k">>))
KeyBlank == JsString(Pack(<<" ">>))
KeyEmpty == JsString(<<>>)
KeyFromEnv == JsString(Pack(<<"e">>))

\* what the caller may pass to a constructor
Credentials == {Undefined, Null, KeyEmpty, KeyBlank, KeyGood}
\* process.env.SHOUTBOX_API_KEY
EnvCredentials == {Undefined, KeyEmpty, KeyFromEnv}

Sender == JsString(Pack(<<"a", "@", "x">>))
Rcpt1 == JsString(Pack(<<"b", "@", "x">>))
Rcpt2 == JsString(Pack(<<"c", "@", "x">>))
Subject == JsString(Pack(<<"H", "i">>))
SmallHtml == JsString(Pack(<<"<", "p", ">", "H", "i", "<", "/", "p", ">">>))
HeaderXA == Pack(<<"X", "-", "A">>)

Plain == EmailOptions(Sender, Rcpt1, Subject, SmallHtml)

\* the size of the serialized options around an html body
Envelope == JsonLength(OptionsValue(EmailOptions(Sender, Rcpt1, Subject, JsString(<<>>))))

\* options whose html body is the characters of head, then ASCII up to a
\* serialized size of total bytes
Padded(head, total) ==
  EmailOptions(Sender, Rcpt1, Subject,
    JsString(Concat(head, Repeat("a", total - Envelope - SumRuns(head, "bytes", 1)))))

\* the attachment objects the caller holds
CallerAttachments ==
  <<Attachment(JsString(PathPresent), Undefined, Undefined, Undefined),
    Attachment(JsString(PathMissing), Undefined, Undefined, Undefined),
    Attachment(JsString(PathPresent), JsString(Pack(<<"n", ".", "p", "d", "f">>)), Undefined,
               JsString(ToBase64(<<1, 2, 3>>))),
    Attachment(JsString(<<>>), Undefined, Undefined, JsBuffer(<<>>)),
    Attachment(JsString(PathPresent), JsString(<<>>), JsString(<<>>), JsBuffer(<<7, 8>>)),
    Attachment(JsString(PathPresent), JsString(Pack(<<"d", "a", "t", "a">>)), Undefined,
               JsString(<<>>))>>

RenderedHtml ==
  Concat(Concat(Pack(<<"<", "!", "D", "O", "C", "T", "Y", "P", "E", " ", "h", "t", "m", "l", ">">>),
                Pack(<<"<", "h", "t", "m", "l", " ", "l", "a", "n", "g", ">">>)),
         Concat(Concat(Pack(<<"<", "!", "-", "-", "$", "-", "-", ">">>),
                       Pack(<<"<", "p", ">", "H", "i", "<", "/", "p", ">">>)),
                Concat(Pack(<<"<", "!", "-", "-", "/", "$", "-", "-", ">">>),
                       Pack(<<"<", "/", "h", "t", "m", "l", ">">>))))
Template == [t |-> "react", jsonUnits |-> 40, jsonBytes |-> 40, renders |-> JsString(RenderedHtml)]
BrokenTemplate ==
  [t |-> "react", jsonUnits |-> 40, jsonBytes |-> 40, renders |-> JsError("Error", "render")]

\* the options objects the caller holds
CallerOptions ==
  <<[Plain EXCEPT !.name = JsString(Pack(<<"N">>)), !.cc = JsArray(<<Rcpt2, Rcpt1>>),
                  !.headers = JsObject(<<(<<HeaderXA, JsString(Pack(<<"1">>))>>)>>)],
    Padded(<<>>, MaxBodyLength),
    Padded(<<>>, MaxBodyLength + 1),
    Padded(Pack(<<Latin1Char>>), MaxBodyLength + 1),
    Padded(Pack(<<BmpChar, QuoteChar, AstralChar>>), MaxBodyLength),
    [Plain EXCEPT !.attachments = JsArray(<<AttRef(1), AttRef(3)>>)],
    [Plain EXCEPT !.attachments = JsArray(<<AttRef(2), AttRef(1)>>)],
    [Plain EXCEPT !.react = Template],
    [Plain EXCEPT !.react = BrokenTemplate, !.html = Undefined],
    [Plain EXCEPT !.html = Undefined,
                  !.attachments = JsArray(<<AttRef(4), AttRef(5), AttRef(6)>>)],
    [Plain EXCEPT !.text = JsString(<<>>),
                  !.headers = JsObject(<<(<<HeaderAuthorization, JsString(Pack(<<"x">>))>>)>>)],
    [Plain EXCEPT !.text = JsString(Pack(<<"T">>)),
                  !.to = JsArray(<<Rcpt1, Rcpt2, Rcpt1>>)]>>

\* the lists the caller may pass to sendEmails
Batches == {<<1, 8>>, <<3, 1>>, <<1, 7>>, <<6, 6>>}

----------------------------------------------------------------------------
(* Actions *)

\* Settled promises are garbage once the caller has gone on: at its next call
\* the world keeps the calls in flight and the requests they have issued.
World ==
  LET live == {c \in DOMAIN calls : calls[c].outcome.state = "pending"}
  IN [opts |-> opts, atts |-> atts,
      requests |-> SelectSeq(requests, LAMBDA r : r.call \in live),
      submissions |-> SelectSeq(submissions, LAMBDA r : r.call \in live),
      calls |-> [c \in live |-> calls[c]],
      elems |-> <<>>]

\* the world as it is, for a call that goes on
Now ==
  [opts |-> opts, atts |-> atts, requests |-> requests, submissions |-> submissions,
   calls |-> calls, elems |-> <<>>]

\* a collaborator answers call c: take up the world the call leaves, and let
\* Promise.all react to it
Commit(w, c, answer) ==
  /\ opts' = w.opts
  /\ atts' = w.atts
  /\ requests' = w.requests
  /\ submissions' = w.submissions
  /\ calls' = [w.calls EXCEPT ![c].answer = answer]
  /\ aggs' = PromiseAllReact(aggs, w.calls, c)
  /\ UNCHANGED <<http, smtp, made, sent>>

\* the caller makes one call, of n emails: it has awaited the ones before
Call(w, n) ==
  /\ sent + n <= MaxSends
  /\ sent' = sent + n
  /\ opts' = w.opts
  /\ atts' = w.atts
  /\ requests' = w.requests
  /\ submissions' = w.submissions
  /\ calls' = w.calls
  /\ made' = made + 1
  /\ UNCHANGED <<http, smtp>>

\* the instance a constructor call leaves behind, with what it was given
Instance(built, build, apiKey, envKey) ==
  [state |-> built.state, apiKey |-> built.apiKey, error |-> built.error,
   build |-> build, given |-> apiKey, env |-> envKey]

\* new Shoutbox(apiKey) under process.env.SHOUTBOX_API_KEY = envKey
Shoutbox(build, apiKey, envKey) ==
  Instance(IF build = "current" THEN ShoutboxConstructor(apiKey, envKey)
           ELSE ShoutboxConstructorLegacy(apiKey, envKey), build, apiKey, envKey)

\* the caller holds its options and attachments and has made no call
Idle ==
  /\ opts = CallerOptions
  /\ atts = CallerAttachments
  /\ calls = <<>>
  /\ aggs = <<>>
  /\ requests = <<>>
  /\ submissions = <<>>
  /\ made = 0
  /\ sent = 0

\* the state after construction: a dispatcher of each kind, made from a key
Init ==
  /\ http = Shoutbox("current", KeyGood, Undefined)
  /\ smtp = SMTPClientConstructor(KeyGood)
  /\ Idle

\* before construction
InitConstruct ==
  /\ http = [state |-> "absent"]
  /\ smtp = [state |-> "absent"]
  /\ Idle

\* new Shoutbox(apiKey), in either revision of index.ts
NewShoutbox ==
  /\ http.state = "absent"
  /\ \E build \in {"current", "legacy"}, apiKey \in Credentials, envKey \in EnvCredentials :
       http' = Shoutbox(build, apiKey, envKey)
  /\ UNCHANGED <<smtp, opts, atts, calls, aggs, requests, submissions, made, sent>>

\* new SMTPClient(apiKey)
NewSMTPClient ==
  /\ smtp.state = "absent"
  /\ \E apiKey \in Credentials : smtp' = SMTPClientConstructor(apiKey)
  /\ UNCHANGED <<http, opts, atts, calls, aggs, requests, submissions, made, sent>>

\* the caller awaits each call before it makes the next one
CallerReady ==
  /\ made < MaxCalls
  /\ \A c \in DOMAIN calls : calls[c].agg = 0 => calls[c].outcome.state # "pending"
  /\ \A g \in DOMAIN aggs : aggs[g].outcome.state # "pending"

\* client.sendEmail(options)
sendEmail ==
  /\ http.state = "constructed"
  /\ CallerReady
  /\ \E o \in DOMAIN opts :
       Call(send(WithCall(World, NewCall("http", "send", o, 0)), NewId(World.calls)), 1)
  /\ aggs' = <<>>

\* smtp.sendEmail(options)
SmtpSendEmailCall ==
  /\ smtp.state = "constructed"
  /\ CallerReady
  /\ \E o \in DOMAIN opts :
       Call(SmtpSendEmail(WithCall(World, NewCall("smtp", "send", o, 0)), NewId(World.calls)),
            1)
  /\ aggs' = <<>>

\* client.sendEmails(list) and smtp.sendEmails(list)
sendEmails ==
  /\ CallerReady
  /\ \E disp \in {"http", "smtp"}, list \in Batches :
       /\ IF disp = "http" THEN http.state = "constructed" ELSE smtp.state = "constructed"
       /\ LET w == MapSend(disp, World, list, 1, made + 1)
          IN /\ Call(w, Len(list))
             /\ aggs' = (made + 1) :> [disp |-> disp, elems |-> w.elems,
                                       outcome |-> PromiseAll(w.calls, w.elems)]

\* smtp.verifyConnection()
VerifyCall ==
  /\ smtp.state = "constructed"
  /\ CallerReady
  /\ Call(WithCall(World, [NewCall("smtp", "verify", 0, 0) EXCEPT !.pc = "verify"]), 0)
  /\ aggs' = <<>>

\* the template renderer answers a call
RenderSettles ==
  \E c \in DOMAIN calls :
    /\ calls[c].pc = "render"
    /\ LET outcome == Render(opts[calls[c].opt].react)
       IN Commit(IF calls[c].disp = "http" THEN ShoutboxRendered(Now, c, outcome)
                 ELSE SmtpRendered(Now, c, outcome), c, outcome)

\* the file system answers a call
ReadFileSettles ==
  \E c \in DOMAIN calls :
    /\ calls[c].pc = "read"
    /\ LET k == AttachmentList(opts[calls[c].opt])[calls[c].i].id
           outcome == ReadFile(atts[k].filepath.s)
       IN Commit(IF calls[c].disp = "http" THEN ShoutboxFileRead(Now, c, outcome)
                 ELSE SmtpFileRead(Now, c, outcome), c, outcome)

\* fetch settles: the server's answer arrives, or the network fails
FetchSettles ==
  \E c \in DOMAIN calls :
    /\ calls[c].pc = "fetch"
    /\ \E outcome \in FetchOutcomes :
         Commit([Now EXCEPT !.calls[c] = ShoutboxFetched(@, outcome)], c, outcome)

\* response.json() or response.text() settles
BodySettles ==
  \E c \in DOMAIN calls :
    /\ calls[c].pc \in {"json", "text"}
    /\ \E outcome \in (IF calls[c].pc = "json" THEN JsonOutcomes(calls[c].response)
                       ELSE TextOutcomes(calls[c].response)) :
         Commit([Now EXCEPT !.calls[c] = ShoutboxBodyRead(@, outcome)], c, outcome)

\* transporter.sendMail settles
SendMailSettles ==
  \E c \in DOMAIN calls :
    /\ calls[c].pc = "sendMail"
    /\ \E outcome \in SendMailOutcomes :
         Commit([Now EXCEPT !.calls[c] = SmtpSent(@, outcome)], c, outcome)

\* transporter.verify settles
VerifySettles ==
  \E c \in DOMAIN calls :
    /\ calls[c].pc = "verify"
    /\ \E outcome \in VerifyOutcomes :
         Commit([Now EXCEPT !.calls[c] = verifyConnection(@, outcome)], c, outcome)

Next ==
  \/ sendEmail
  \/ SmtpSendEmailCall
  \/ sendEmails
  \/ VerifyCall
  \/ RenderSettles
  \/ ReadFileSettles
  \/ FetchSettles
  \/ BodySettles
  \/ SendMailSettles
  \/ VerifySettles

Spec == Init /\ [][Next]_vars

NextConstruct == NewShoutbox \/ NewSMTPClient

SpecConstruct == InitConstruct /\ [][NextConstruct]_vars

\* what a template may render to: every string of up to MaxRendering of the
\* characters that cleanRenderedHtml looks for and a letter, the rendering of
\* the welcome template, and a paragraph that names a price
Renderings ==
  {Pack(chars) : chars \in UNION {[1..n -> {"$", "<", ">", "/", "a"}] : n \in 1..MaxRendering}}
    \cup {RenderedHtml, Pack(<<"<", "p", ">", "$", "5", "<", "/", "p", ">">>)}

\* the caller holds one options object, with a template, and an HTTP dispatcher
InitClean ==
  /\ http = Shoutbox("current", KeyGood, Undefined)
  /\ smtp = [state |-> "absent"]
  /\ \E html \in Renderings :
       opts = <<[Plain EXCEPT !.react = [Template EXCEPT !.renders = JsString(html)]]>>
  /\ atts = <<>>
  /\ calls = <<>>
  /\ aggs = <<>>
  /\ requests = <<>>
  /\ submissions = <<>>
  /\ made = 0
  /\ sent = 0

\* the send of the options, up to its request
NextClean == sendEmail \/ RenderSettles

SpecClean == InitClean /\ [][NextClean]_vars

----------------------------------------------------------------------------
(* Properties *)

HttpSends == {c \in DOMAIN calls : calls[c].disp = "http" /\ calls[c].op = "send"}
SmtpSends == {c \in DOMAIN calls : calls[c].disp = "smtp" /\ calls[c].op = "send"}
Verifies == {c \in DOMAIN calls : calls[c].op = "verify"}
HttpAggs == {g \in DOMAIN aggs : aggs[g].disp = "http"}
SmtpAggs == {g \in DOMAIN aggs : aggs[g].disp = "smtp"}
Elems(g) == Range(aggs[g].elems)

\* the HTTP sends that have serialized their options
Serializing == {c \in HttpSends : calls[c].emailContent # Undefined}
\* the bytes of the body of such a send
BodyBytes(c) == JsonBytes(OptionsValue(calls[c].emailContent))
\* a request was issued for the call c
Requested(c) == \E k \in DOMAIN requests : requests[k].call = c
\* the HTTP sends that the server has answered, and that are over
Answered(ok) ==
  {c \in HttpSends : /\ calls[c].pc = "done"
                     /\ calls[c].response # Undefined
                     /\ calls[c].response.ok = ok}

\* C1: an HTTP send whose serialized options exceed 1,048,576 bytes issues no
\* request, and fails with the size error that carries the byte count.
C1_OversizeFailsLocally ==
  \A c \in Serializing :
    BodyBytes(c) > MaxBodyLength =>
      /\ ~Requested(c)
      /\ calls[c].outcome = Rejected(BodyTooLarge(BodyBytes(c)))

\* C2: an HTTP send whose serialized options are exactly 1,048,576 bytes
\* passes the size check and issues its request, with those options as body.
C2_AtLimitIsSent ==
  \A c \in Serializing :
    BodyBytes(c) = MaxBodyLength =>
      /\ \E k \in DOMAIN requests :
           requests[k].call = c /\ requests[k].body = calls[c].emailContent
      /\ calls[c].outcome # Rejected(BodyTooLarge(BodyBytes(c)))

C2_Witness ==
  \E c \in Serializing :
    /\ BodyBytes(c) = MaxBodyLength
    /\ JsonLength(OptionsValue(calls[c].emailContent)) = MaxBodyLength
    /\ Requested(c)

\* an element of a sendEmails failed: its send raised, or the server refused it
ElementFailed(c) ==
  \/ calls[c].outcome.state = "rejected"
  \/ calls[c].outcome.state = "fulfilled" /\ ~calls[c].response.ok
\* it succeeded: the server accepted it and the send returned
ElementSucceeded(c) ==
  calls[c].outcome.state = "fulfilled" /\ calls[c].response.ok

SmtpElementFailed(c) ==
  calls[c].answer # Undefined /\ calls[c].answer.state = "rejected"
\* the transport has accepted the mail of an SMTP element send
SmtpElementSucceeded(c) ==
  /\ calls[c].pc = "done"
  /\ calls[c].answer = Fulfilled([t |-> "info"])
  /\ \E k \in DOMAIN submissions : submissions[k].call = c

\* C5: SMTP sendEmails fails when an element send fails, and returns only
\* when every element send has succeeded.
C5_SmtpAllOrNothing ==
  \A g \in SmtpAggs :
    /\ (\E c \in Elems(g) : SmtpElementFailed(c)) => aggs[g].outcome.state = "rejected"
    /\ aggs[g].outcome.state = "fulfilled" => \A c \in Elems(g) : SmtpElementSucceeded(c)

C5_Witness ==
  \E g \in SmtpAggs :
    /\ \E c \in Elems(g) : calls[c].answer \in {Rejected(e) : e \in TransportErrors}
    /\ \E c \in Elems(g) : SmtpElementSucceeded(c)
    /\ aggs[g].outcome.state = "rejected"

\* the value v carries the text of a response body
Carries(v, text) ==
  \/ v = [t |-> "text", of |-> text]
  \/ v.t = "error" /\ v.detail = text
  \/ v.t = "object" /\ \E i \in DOMAIN v.e : v.e[i][2] = [t |-> "text", of |-> text]

\* C6: an HTTP send that the server answers with a non-2xx status does not
\* raise: it returns a failure value that carries the response text, which a
\* successful send does not return.
C6_NonOkSurfaced ==
  \A c \in Answered(FALSE) :
    /\ calls[c].outcome.state = "fulfilled"
    /\ Carries(calls[c].outcome.value, calls[c].response.body)
    /\ \A d \in Answered(TRUE) : calls[d].outcome # calls[c].outcome

\* what console holds of the call c
Logged(c) == Range(calls[c].logged)
\* the body of the response to c, parsed as JSON
ParsedBody(c) == [t |-> "json", of |-> calls[c].response.body]

NoCredential == {Undefined, Null, KeyEmpty}

\* C8: new Shoutbox with an absent or empty credential, and no credential in
\* the environment, throws "API key is required for Shoutbox".
C8_HttpKeyRequired ==
  (http.state # "absent" /\ http.given \in NoCredential /\ ~Truthy(http.env))
  => /\ http.state = "threw"
     /\ http.error = ApiKeyRequired

C8_Witness ==
  /\ http.state = "threw"
  /\ http.build = "current"
  /\ http.given = Null
  /\ http.env = Undefined

\* C9: no SMTPClient is constructed from an absent or empty credential.
C9_SmtpKeyRequired ==
  smtp.state = "constructed" => smtp.pass \notin NoCredential

\* C10: verifyConnection returns true when transporter.verify succeeds and
\* false when it fails, after any operations; it never raises.
C10_VerifyNeverRaises ==
  \A c \in Verifies :
    calls[c].pc = "done"
    => calls[c].outcome = Fulfilled(IF calls[c].answer.state = "fulfilled"
                                    THEN JsTrue ELSE JsFalse)

C10_Witness ==
  \E c \in Verifies :
    /\ calls[c].outcome = Fulfilled(JsFalse)
    /\ calls[c].answer \in {Rejected(e) : e \in TransportErrors}
    /\ sent > 0

Sends == HttpSends \cup SmtpSends
\* the attachment objects the options of the send c list, in order
Listed(c) == [i \in DOMAIN AttachmentList(opts[calls[c].opt]) |->
                AttachmentList(opts[calls[c].opt])[i].id]
\* the attachments of the body of the request r, and of the message m
BodyParts(r) == IF r.body.attachments.t = "array" THEN r.body.attachments.a ELSE <<>>
\* the content the caller has set on the attachment object k, Undefined if none
Supplied(k) == CallerAttachments[k].content
\* content as each transport encodes it
HttpContent(v) == IF v.t = "buffer" THEN JsString(ToBase64(v.b)) ELSE v
SmtpContent(v) == IF v.t = "string" THEN JsBuffer(FromBase64(v.s)) ELSE v

\* C11: an attachment whose content the caller has set, be it a string or a
\* buffer, empty or not, is never read from its filepath, and its content goes
\* out as supplied: base64 text as it is and bytes base64-encoded over HTTP,
\* base64 text decoded to bytes over SMTP.
C11_SuppliedContentKept ==
  \A c \in Sends :
    /\ calls[c].pc = "read" => Supplied(Listed(c)[calls[c].i]) = Undefined
    /\ \A k \in DOMAIN requests :
         requests[k].call = c =>
           \A i \in DOMAIN Listed(c) :
             Supplied(Listed(c)[i]) # Undefined =>
               BodyParts(requests[k])[i].content = HttpContent(Supplied(Listed(c)[i]))
    /\ \A k \in DOMAIN submissions :
         submissions[k].call = c =>
           \A i \in DOMAIN Listed(c) :
             Supplied(Listed(c)[i]) # Undefined =>
               submissions[k].mail.attachments[i].content
                 = SmtpContent(Supplied(Listed(c)[i]))

\* the attachments that go out: the attachment object, and the filename,
\* contentType and content of its part in a request body or a message
OutgoingParts ==
  UNION ({ {<<Listed(requests[k].call)[i], BodyParts(requests[k])[i].filename,
              BodyParts(requests[k])[i].contentType, BodyParts(requests[k])[i].content>> :
            i \in DOMAIN BodyParts(requests[k])} : k \in DOMAIN requests }
         \cup
         { {<<Listed(submissions[k].call)[i], submissions[k].mail.attachments[i].filename,
              submissions[k].mail.attachments[i].contentType,
              submissions[k].mail.attachments[i].content>> :
            i \in DOMAIN submissions[k].mail.attachments} : k \in DOMAIN submissions })
NonEmptyString(v) == v.t = "string" /\ v.s # <<>>
\* the last segment of a path: what lies between its last "/" that something
\* other than "/" follows, and the "/" that end it
LastSegment(runs) ==
  LET chars == Unpack(runs)
      names == {i \in DOMAIN chars : chars[i] # "/"}
      last == IF names = {} THEN 0 ELSE CHOOSE i \in names : \A j \in names : j <= i
      first == IF names = {} THEN 1
               ELSE CHOOSE i \in names :
                      /\ \A j \in i..last : j \in names
                      /\ i - 1 \notin names
  IN JsString(Pack(SubSeq(chars, first, last)))

\* C12: every attachment that goes out, over HTTP or SMTP, has a non-empty
\* filename, a non-empty contentType and a content.
C12_PartsComplete ==
  \A p \in OutgoingParts :
    /\ NonEmptyString(p[2])
    /\ NonEmptyString(p[3])
    /\ p[4].t \in {"string", "buffer"}

\* C13 as stated: an attachment without filename goes out under the last
\* segment of its filepath, and one with a filename under that filename.
C13_FilenameKept ==
  \A p \in OutgoingParts :
    p[2] = IF CallerAttachments[p[1]].filename = Undefined
           THEN LastSegment(CallerAttachments[p[1]].filepath.s)
           ELSE CallerAttachments[p[1]].filename

\* C13, amended: an attachment whose filename is absent or the empty string
\* goes out under the last segment of its filepath; any other filename the
\* caller has set is never replaced.
C13_FilenameResolved ==
  \A p \in OutgoingParts :
    p[2] = IF CallerAttachments[p[1]].filename \in {Undefined, JsString(<<>>)}
           THEN LastSegment(CallerAttachments[p[1]].filepath.s)
           ELSE CallerAttachments[p[1]].filename

C13_Witness ==
  /\ \E p \in OutgoingParts :
       /\ CallerAttachments[p[1]].filename = Undefined
       /\ CallerAttachments[p[1]].filepath = JsString(PathPresent)
       /\ p[2] = JsString(Pack(<<"a", ".", "t", "x", "t">>))
  /\ \E p \in OutgoingParts :
       /\ CallerAttachments[p[1]].filename = JsString(Pack(<<"n", ".", "p", "d", "f">>))
       /\ p[2] = CallerAttachments[p[1]].filename

\* the contentType the lookup gives the filename that goes out
LookedUp(filename) ==
  IF MimeLookup(filename.s) = JsFalse THEN JsString(MimeOctetStream)
  ELSE MimeLookup(filename.s)

\* C14 as stated: an attachment without contentType goes out with the type
\* looked up for its resolved filename, application/octet-stream when the
\* lookup fails; one with a contentType goes out with that contentType.
C14_ContentTypeKept ==
  \A p \in OutgoingParts :
    p[3] = IF CallerAttachments[p[1]].contentType = Undefined THEN LookedUp(p[2])
           ELSE CallerAttachments[p[1]].contentType

\* C14, amended: an attachment whose contentType is absent or the empty
\* string goes out with the type looked up for its resolved filename,
\* application/octet-stream when the lookup fails; any other contentType the
\* caller has set is never replaced.
C14_ContentTypeResolved ==
  \A p \in OutgoingParts :
    p[3] = IF CallerAttachments[p[1]].contentType \in {Undefined, JsString(<<>>)}
           THEN LookedUp(p[2])
           ELSE CallerAttachments[p[1]].contentType

C14_Witness ==
  /\ \E p \in OutgoingParts :
       /\ CallerAttachments[p[1]].contentType = Undefined
       /\ p[2] = JsString(Pack(<<"n", ".", "p", "d", "f">>))
       /\ p[3] = JsString(MimePdf)
  /\ \E p \in OutgoingParts :
       /\ CallerAttachments[p[1]].contentType = Undefined
       /\ p[3] = JsString(MimeTextPlain)

\* the calls that the step under way makes
Made == IF made' = made
        THEN {}
        ELSE {c \in DOMAIN calls' :
                ~(c \in DOMAIN calls /\ calls[c].outcome.state = "pending")}
\* the requests issued for the call c, after the step
RequestsOf(c) == {requests'[k] : k \in {j \in DOMAIN requests' : requests'[j].call = c}}

\* C15: an HTTP send of options that hold custom headers issues a request
\* that carries every header the caller has set, name and value, and whose
\* body has no headers property.
C15_Step ==
  \A c \in Made :
    (/\ calls'[c].disp = "http"
     /\ calls'[c].op = "send"
     /\ Truthy(opts[calls'[c].opt].headers))
    => /\ calls'[c].pc = "fetch" => RequestsOf(c) # {}
       /\ \A r \in RequestsOf(c) :
            /\ ~Serialized(r.body.headers)
            /\ \A i \in DOMAIN opts[calls'[c].opt].headers.e :
                 opts[calls'[c].opt].headers.e[i] \in Range(r.headers)
C15_HeadersLifted == [][C15_Step]_vars

C15_Witness ==
  \E k \in DOMAIN requests :
    /\ CallerOptions[calls[requests[k].call].opt].headers
         = JsObject(<<(<<HeaderXA, JsString(Pack(<<"1">>))>>)>>)
    /\ <<HeaderXA, JsString(Pack(<<"1">>))>> \in Range(requests[k].headers)
    /\ requests[k].body.headers = Undefined

\* C16: every request carries Authorization: Bearer <the key the instance
\* was made from> and Content-Type: application/json, whatever custom headers
\* the options hold.
C16_Credentialed ==
  \A k \in DOMAIN requests :
    /\ <<HeaderAuthorization, JsString(Concat(Bearer, http.apiKey.s))>>
         \in Range(requests[k].headers)
    /\ <<HeaderContentType, JsString(ApplicationJson)>> \in Range(requests[k].headers)

\* the error of a file that cannot be read
IsReadError(v) == v.t = "error" /\ v.name = "ENOENT"
\* readFile has failed the send c
ReadFailed(c) ==
  /\ calls[c].answer # Undefined
  /\ calls[c].answer.state = "rejected"
  /\ IsReadError(calls[c].answer.value)

\* C17: a send whose attachment file cannot be read fails with the error of
\* the read, unchanged; it issues no request and submits no message, and the
\* attachments after that one are not read.
C17_ReadFailureAborts ==
  \A c \in Sends :
    ReadFailed(c) =>
      /\ calls[c].pc = "done"
      /\ calls[c].outcome = Rejected(calls[c].answer.value)
      /\ ~Requested(c)
      /\ ~\E k \in DOMAIN submissions : submissions[k].call = c
      /\ calls[c].i \in DOMAIN Listed(c)
      /\ ReadFile(atts[Listed(c)[calls[c].i]].filepath.s) = calls[c].answer
      /\ Len(calls[c].attachments) < calls[c].i
      /\ made = 1 /\ DOMAIN calls = {c}
         => \A j \in DOMAIN Listed(c) :
              j > calls[c].i => atts[Listed(c)[j]] = CallerAttachments[Listed(c)[j]]

C17_Witness ==
  \E c \in HttpSends :
    /\ ReadFailed(c)
    /\ calls[c].i < Len(Listed(c))
    /\ calls[c].outcome.state = "rejected"

\* chars with every stretch from a "<" through the next ">" cut out
RECURSIVE CutTags(_)
CutTags(chars) ==
  IF chars = <<>> THEN <<>>
  ELSE IF Head(chars) = "<" /\ \E i \in DOMAIN chars : chars[i] = ">"
       THEN CutTags(SubSeq(chars, 1 + CHOOSE i \in DOMAIN chars :
                                        /\ chars[i] = ">"
                                        /\ \A j \in 1..(i - 1) : chars[j] # ">",
                           Len(chars)))
       ELSE <<Head(chars)>> \o CutTags(Tail(chars))
\* html without its tags
WithoutTags(html) ==
  IF \A i \in DOMAIN html.s : html.s[i][1] # "<" THEN html
  ELSE JsString(Pack(CutTags(Unpack(html.s))))
\* the options the caller passed to the send behind the message m
Passed(m) == CallerOptions[calls[m.call].opt]

\* C18 as stated: the text of an SMTP message is the caller's text when the
\* options hold one; else the html without its tags when there is html; else
\* the message has no text.
C18_TextFallback ==
  \A k \in DOMAIN submissions :
    submissions[k].mail.text =
      IF Passed(submissions[k]).text # Undefined THEN Passed(submissions[k]).text
      ELSE IF submissions[k].mail.html # Undefined
           THEN WithoutTags(submissions[k].mail.html)
           ELSE Undefined

\* C18, amended: the text of an SMTP message is the caller's text when it is
\* a non-empty string; else, when the html is a non-empty string, the html
\* with every stretch from a "<" through the next ">" removed; else the
\* message has no text.  "<h1>Hi</h1><p>Bye</p>" gives "HiBye".
C18_TextOrStripped ==
  /\ stripHtml(Concat(Pack(<<"<", "h", "1", ">", "H", "i", "<", "/", "h", "1", ">">>),
                      Pack(<<"<", "p", ">", "B", "y", "e", "<", "/", "p", ">">>)))
       = Pack(<<"H", "i", "B", "y", "e">>)
  /\ \A k \in DOMAIN submissions :
       submissions[k].mail.text =
         IF NonEmptyString(Passed(submissions[k]).text) THEN Passed(submissions[k]).text
         ELSE IF NonEmptyString(submissions[k].mail.html)
              THEN WithoutTags(submissions[k].mail.html)
              ELSE Undefined

C18_Witness ==
  \E k \in DOMAIN submissions :
    /\ Passed(submissions[k]).text = Undefined
    /\ submissions[k].mail.html = SmallHtml
    /\ submissions[k].mail.text = JsString(Pack(<<"H", "i">>))

\* what the renderer makes of the template of the options o
Rendered(o) == Render(o.react).value
\* the html the HTTP dispatcher makes of it
Cleaned ==
  JsString(Concat(Pack(<<"<", "!", "-", "-", "-", "-", ">", "<", "p", ">", "H", "i">>),
                  Pack(<<"<", "/", "p", ">", "<", "!", "-", "-", "-", "-", ">">>)))

\* C19: options that hold a template go out with the html made from the
\* rendered template, whatever html the caller has set; options that hold
\* none go out with the caller's html as it is.
C19_TemplateWins ==
  /\ \A k \in DOMAIN requests :
       requests[k].body.html =
         IF Truthy(Passed(requests[k]).react)
         THEN JsString(cleanRenderedHtml(Rendered(Passed(requests[k])).s))
         ELSE Passed(requests[k]).html
  /\ \A k \in DOMAIN submissions :
       submissions[k].mail.html =
         IF Truthy(Passed(submissions[k]).react) THEN Rendered(Passed(submissions[k]))
         ELSE Passed(submissions[k]).html

C19_Witness ==
  \E k \in DOMAIN requests :
    /\ Passed(requests[k]).react = Template
    /\ Passed(requests[k]).html = SmallHtml
    /\ requests[k].body.html = Cleaned

\* the characters s hold the characters pat in a row
Occurs(s, pat) ==
  \E i \in {j \in 1..(Len(s) - Len(pat) + 1) : s[j] = pat[1]} :
    SubSeq(s, i, i + Len(pat) - 1) = pat
\* html holds an artifact of rendering: the DOCTYPE, the opening or closing
\* tag of the document wrapper, or a marker character
HasArtifacts(html) ==
  \/ \E i \in DOMAIN html.s : html.s[i][1] = "$"
  \/ LET chars == Unpack(html.s)
     IN \/ Occurs(chars, <<"<", "!", "D", "O", "C", "T", "Y", "P", "E">>)
        \/ Occurs(chars, <<"<", "h", "t", "m", "l">>)
        \/ Occurs(chars, <<"<", "/", "h", "t", "m", "l">>)

RECURSIVE AddressLine(_)
AddressLine(a) ==
  IF a = <<>> THEN <<>>
  ELSE IF Len(a) = 1 THEN Unpack(a[1].s)
  ELSE Unpack(a[1].s) \o <<",", " ">> \o AddressLine(Tail(a))
\* recipients as an SMTP message carries them
OnTheLine(v) == IF v.t = "array" THEN JsString(Pack(AddressLine(v.a))) ELSE v

\* C21: to and cc go out in the order and with the repetitions the caller
\* gave: as the list itself in an HTTP body, as the addresses joined with
\* ", " in an SMTP message; one address in a string goes out as it is, and
\* options without cc give a message without cc.
C21_RecipientsKept ==
  /\ \A k \in DOMAIN requests :
       /\ requests[k].body.to = Passed(requests[k]).to
       /\ requests[k].body.cc = Passed(requests[k]).cc
  /\ \A k \in DOMAIN submissions :
       /\ submissions[k].mail.to = OnTheLine(Passed(submissions[k]).to)
       /\ submissions[k].mail.cc = OnTheLine(Passed(submissions[k]).cc)

C21_Witness ==
  \E k \in DOMAIN submissions :
    /\ Passed(submissions[k]).to = JsArray(<<Rcpt1, Rcpt2, Rcpt1>>)
    /\ Passed(submissions[k]).cc = Undefined
    /\ submissions[k].mail.to =
         JsString(Pack(<<"b", "@", "x", ",", " ", "c", "@", "x", ",", " ", "b", "@", "x">>))
    /\ submissions[k].mail.cc = Undefined

\* fetch itself failed for the HTTP send c: a request went out, no response came
FetchFailed(c) ==
  /\ Requested(c)
  /\ calls[c].pc = "done"
  /\ calls[c].response = Undefined
  /\ calls[c].answer \in {Rejected(e) : e \in {NetworkError}}

\* C22: an HTTP send whose fetch fails at the network level fails with the
\* error fetch failed with; it never returns.
C22_NetworkFailureRaised ==
  \A c \in HttpSends :
    FetchFailed(c) => calls[c].outcome = Rejected(calls[c].answer.value)

C22_Witness ==
  \E c \in HttpSends :
    /\ FetchFailed(c)
    /\ calls[c].outcome = Rejected(NetworkError)
    /\ \E j \in DOMAIN calls[c].logged : calls[c].logged[j].value = NetworkError

\* C23: an SMTP send fails with the very error that the rendering, the read
\* of an attachment or the transporter failed with, and returns only when the
\* transporter has accepted the message.
C23_SmtpFailureRaised ==
  \A c \in SmtpSends :
    /\ SmtpElementFailed(c) =>
         calls[c].pc = "done" /\ calls[c].outcome = Rejected(calls[c].answer.value)
    /\ calls[c].outcome.state = "fulfilled" => SmtpElementSucceeded(c)

\* the rendering of the template failed, and the send failed with its error
C23_Witness ==
  \E c \in SmtpSends :
    /\ calls[c].opt = 9
    /\ calls[c].answer = Rejected(BrokenTemplate.renders)
    /\ calls[c].outcome = Rejected(BrokenTemplate.renders)
    /\ ~\E k \in DOMAIN submissions : submissions[k].call = c

\* the requests issued, and the messages submitted, for the calls in cs
RequestsFor(cs) == {k \in DOMAIN requests : requests[k].call \in cs}
SubmissionsFor(cs) == {k \in DOMAIN submissions : submissions[k].call \in cs}

\* C24: no send of one email issues more than one HTTP request or one SMTP
\* submission, whatever its outcome, and a sendEmails over n emails issues no
\* more than n.
C24_NoRetry ==
  /\ \A c \in DOMAIN calls :
       Cardinality(RequestsFor({c})) + Cardinality(SubmissionsFor({c})) <= 1
  /\ \A g \in DOMAIN aggs :
       Cardinality(RequestsFor(Elems(g))) + Cardinality(SubmissionsFor(Elems(g)))
         <= Len(aggs[g].elems)

\* both sends of a sendEmails are over, each after one attempt that failed
C24_Witness ==
  \E g \in DOMAIN aggs :
    /\ Len(aggs[g].elems) = 2
    /\ \A c \in Elems(g) : calls[c].pc = "done" /\ calls[c].outcome.state = "rejected"
    /\ Cardinality(RequestsFor(Elems(g))) + Cardinality(SubmissionsFor(Elems(g))) = 2

\* the custom headers the caller put in the options of the request r
Custom(r) == IF Truthy(Passed(r).headers) THEN Range(Passed(r).headers.e) ELSE {}

\* C26 as stated: every request made for options that the caller gave custom
\* headers carries those headers, be it the first send of the options object
\* or a later one.
C26_HeadersOnEverySend ==
  \A k \in DOMAIN requests : Custom(requests[k]) \subseteq Range(requests[k].headers)

\* the content a send on its own puts in its request for the attachment
\* object k of the caller
LoneContent(k) ==
  IF Truthy(CallerAttachments[k].content) THEN HttpContent(CallerAttachments[k].content)
  ELSE JsString(ToBase64(FileBytes(CallerAttachments[k].filepath.s)))
\* the attachments in the options that the HTTP send c has serialized
SerializedParts(c) == BodyParts([body |-> calls[c].emailContent])

\* C27: in an HTTP sendEmails whose elements share attachment objects, in
\* whatever order the reads of the files settle, the content of every
\* attachment is base64 text when a send serializes its options, the same
\* text a send on its own would carry.
C27_SharedAttachmentsEncoded ==
  \A g \in HttpAggs : \A c \in Elems(g) \cap Serializing :
    \A i \in DOMAIN SerializedParts(c) :
      /\ SerializedParts(c)[i].content.t = "string"
      /\ SerializedParts(c)[i].content = LoneContent(Listed(c)[i])

\* two sends of one sendEmails, given the same options object, have both
\* issued their requests, the file of the shared attachment read twice
C27_Witness ==
  \E g \in HttpAggs : \E c, d \in Elems(g) :
    /\ c # d /\ calls[c].opt = calls[d].opt
    /\ Requested(c) /\ Requested(d)
    /\ CallerAttachments[Listed(c)[1]].content = Undefined
    /\ calls[c].answer = Fulfilled(JsBuffer(FileBytes(PathPresent)))
    /\ calls[d].answer = Fulfilled(JsBuffer(FileBytes(PathPresent)))
    /\ SerializedParts(c)[1].content = JsString(ToBase64(FileBytes(PathPresent)))
    /\ SerializedParts(d) = SerializedParts(c)

\* the calls that the step starts or moves
Moved == {c \in DOMAIN calls' : c \notin DOMAIN calls \/ calls'[c] # calls[c]}

\* C28: no step of an SMTP send changes the headers or the attachments list
\* of the caller's options, or the filename, contentType or content of any
\* attachment of the caller.
C28_Step ==
  (Moved # {} /\ \A c \in Moved : calls'[c].disp = "smtp" /\ calls'[c].op = "send")
  => /\ atts' = atts
     /\ \A o \in DOMAIN opts :
          /\ opts'[o].headers = opts[o].headers
          /\ opts'[o].attachments = opts[o].attachments
C28_SmtpLeavesOptions == [][C28_Step]_vars

\* an SMTP send of options with a file to read has delivered, and the caller's headers and attachments are as they were given
C28_Witness ==
  /\ atts = CallerAttachments
  /\ \A o \in DOMAIN opts :
       /\ opts[o].headers = CallerOptions[o].headers
       /\ opts[o].attachments = CallerOptions[o].attachments
  /\ \E c \in SmtpSends :
       /\ calls[c].opt = 6
       /\ calls[c].outcome.state = "fulfilled"
       /\ \E k \in DOMAIN submissions :
            /\ submissions[k].call = c
            /\ Len(submissions[k].mail.attachments) = 2

\* C29 as stated: an HTTP send that the server has answered with a 2xx
\* status returns; nothing after the answer, the read of the response body
\* included, makes it fail.
C29_AcceptedReturns ==
  \A c \in Answered(TRUE) : calls[c].outcome.state = "fulfilled"

\* the rendering of the template behind the request r
RenderingOf(r) == opts[calls[r.call].opt].react.renders

\* C30 as stated: cleaning takes the DOCTYPE declaration, the html tags and
\* the markers out of the rendering and nothing else, so the text between
\* the tags goes out as it was rendered, a "$" or a ">" in it included.
C30_TextContentKept ==
  \A k \in DOMAIN requests :
    WithoutTags(requests[k].body.html) = WithoutTags(RenderingOf(requests[k]))
====
